---- MODULE Spec2Model ----
(***************************************************************************)
(* A model of ihnsolver.py: the input loader, the host normaliser, the     *)
(* fallback resolver and prober worker pools, the delegate (dnsx / httpx)  *)
(* strategies and the main pipeline.                                       *)
(*                                                                         *)
(* Python strings are sequences of one-character strings, ordered by code  *)
(* point as Python's sorted() orders them.                                 *)
(***************************************************************************)
EXTENDS Integers, Sequences, FiniteSets, TLC

(***************************************************************************)
(* Characters and strings                                                  *)
(***************************************************************************)

\* The characters the model's strings are made of, with their code points.
CodePoint ==
    [c \in {"\n", " ", ".", "/", "0", "1", "2", "4", ":", "-",
            "A", "E", "H", "P", "S", "T",
            "a", "b", "c", "e", "h", "l", "m", "o", "p", "s", "t", "x"} |->
        CASE c = "\n" -> 10  [] c = " " -> 32  [] c = "-" -> 45  [] c = "." -> 46
          [] c = "/" -> 47  [] c = "0" -> 48  [] c = "1" -> 49  [] c = "2" -> 50
          [] c = "4" -> 52  [] c = ":" -> 58
          [] c = "A" -> 65  [] c = "E" -> 69  [] c = "H" -> 72  [] c = "P" -> 80
          [] c = "S" -> 83  [] c = "T" -> 84
          [] c = "a" -> 97  [] c = "b" -> 98  [] c = "c" -> 99  [] c = "e" -> 101
          [] c = "h" -> 104 [] c = "l" -> 108 [] c = "m" -> 109 [] c = "o" -> 111
          [] c = "p" -> 112 [] c = "s" -> 115 [] c = "t" -> 116 [] c = "x" -> 120]

\* str.lower() on one character.
LowerChar(c) ==
    CASE c = "A" -> "a" [] c = "E" -> "e" [] c = "H" -> "h"
      [] c = "P" -> "p" [] c = "S" -> "s" [] c = "T" -> "t"
      [] OTHER -> c

\* str.lower()
Lower(s) == [i \in 1..Len(s) |-> LowerChar(s[i])]

\* Characters str.strip() and str.split() treat as whitespace.
IsSpace(c) == c \in {" ", "\n"}

\* s[n:] of Python
Drop(s, n) == SubSeq(s, n + 1, Len(s))

\* Python's < on strings: lexicographic by code point.
RECURSIVE StrLess(_, _)
StrLess(s, t) ==
    IF t = <<>> THEN FALSE
    ELSE IF s = <<>> THEN TRUE
    ELSE IF CodePoint[s[1]] # CodePoint[t[1]] THEN CodePoint[s[1]] < CodePoint[t[1]]
    ELSE StrLess(Tail(s), Tail(t))

\* sorted(S) for a set of strings
RECURSIVE Sorted(_)
Sorted(S) ==
    IF S = {} THEN <<>>
    ELSE LET m == CHOOSE x \in S : \A y \in S \ {x} : StrLess(x, y)
         IN  <<m>> \o Sorted(S \ {m})

\* set(seq)
Range(seq) == {seq[i] : i \in 1..Len(seq)}

\* str.rstrip(chars)
RECURSIVE RStrip(_, _)
RStrip(s, chars) ==
    IF s # <<>> /\ s[Len(s)] \in chars THEN RStrip(SubSeq(s, 1, Len(s) - 1), chars)
    ELSE s

\* str.lstrip() with no argument
RECURSIVE LStripSpace(_)
LStripSpace(s) ==
    IF s # <<>> /\ IsSpace(s[1]) THEN LStripSpace(Tail(s)) ELSE s

\* str.strip() with no argument
Strip(s) == LStripSpace(RStrip(s, {" ", "\n"}))

\* "".join(parts)
RECURSIVE Concat(_)
Concat(parts) ==
    IF parts = <<>> THEN <<>> ELSE Head(parts) \o Concat(Tail(parts))

\* All sequences over S of length at most n.
SeqsUpTo(S, n) == UNION {[1..k -> S] : k \in 0..n}

(***************************************************************************)
(* normalize_host                                                          *)
(***************************************************************************)

SchemeHttp  == <<"h", "t", "t", "p", ":", "/", "/">>
SchemeHttps == <<"h", "t", "t", "p", "s", ":", "/", "/">>

\* p (lower case) is a prefix of s, ignoring the case of s.
IsPrefixIgnoreCase(p, s) ==
    /\ Len(s) >= Len(p)
    /\ \A i \in 1..Len(p) : LowerChar(s[i]) = p[i]

\* Length of the match of ^https?:// (re.IGNORECASE) at the start of s, 0 if none.
SchemeMatchLen(s) ==
    IF IsPrefixIgnoreCase(SchemeHttps, s) THEN Len(SchemeHttps)
    ELSE IF IsPrefixIgnoreCase(SchemeHttp, s) THEN Len(SchemeHttp)
    ELSE 0

\* re.sub(r"^https?://", "", h, flags=re.IGNORECASE): one anchored replacement.
StripScheme(s) == Drop(s, SchemeMatchLen(s))

normalize_host(h) == RStrip(StripScheme(h), {"/", " "})

(***************************************************************************)
(* State                                                                   *)
(***************************************************************************)

VARIABLES
    arg,          \* normalize_host: the string under normalisation
    ret,          \* normalize_host: results of the successive applications
    disk,         \* read_input: the file at the input path
    runs,         \* read_input: the sequences returned by the successive loads
    pc,           \* main: position in the pipeline
    exit_code,    \* main: the process's exit status, -1 while it runs
    args,         \* main: the parsed command line
    tools,        \* which of dnsx and httpx command_exists() finds
    hosts,        \* main: the host list after loading, filtering and sampling
    rtask,        \* resolve_with_socket: the futures, in submission order
    racc,         \* resolve_with_socket: the set `resolved`
    resolved,     \* main: the list the resolver returned
    ptask,        \* run_probe_fallback: the futures, in submission order
    lines,        \* run_probe_fallback: the list `lines`
    alive_set,    \* run_probe_fallback: the set `alive_hosts`
    alive_hosts,  \* main: the list the prober returned
    raw_file,     \* httpx-alive.txt
    out_file,     \* the live-hosts output file
    dead_hosts    \* the dead-host list of the output writer

normVars == <<arg, ret>>
loadVars == <<runs>>
pipeVars == <<pc, exit_code, args, tools, hosts, rtask, racc, resolved,
              ptask, lines, alive_set, alive_hosts, raw_file, out_file, dead_hosts>>
vars == <<arg, ret, disk, runs, pc, exit_code, args, tools, hosts, rtask, racc,
          resolved, ptask, lines, alive_set, alive_hosts, raw_file, out_file,
          dead_hosts>>

NoFile == [written |-> FALSE, text |-> <<>>]

NormIdle == arg = <<>> /\ ret = <<>>
LoadIdle == runs = <<>>
DiskIdle == disk = [kind |-> "missing", text |-> <<>>]
PipeIdle ==
    /\ pc = "idle" /\ exit_code = -1
    /\ args = [pattern |-> <<>>, sample |-> 0, threads |-> 1]
    /\ tools = [dnsx |-> FALSE, httpx |-> FALSE]
    /\ hosts = <<>> /\ rtask = <<>> /\ racc = {} /\ resolved = <<>>
    /\ ptask = <<>> /\ lines = <<>> /\ alive_set = {} /\ alive_hosts = <<>>
    /\ raw_file = NoFile /\ out_file = NoFile /\ dead_hosts = <<>>

(***************************************************************************)
(* normalize_host applied, and applied again to its own result             *)
(***************************************************************************)

MaxPieces == 3

\* The pieces the strings given to normalize_host are concatenated from.
NormPieces ==
    { SchemeHttp, SchemeHttps,
      <<"H", "T", "T", "P", "S", ":", "/", "/">>,
      <<"E", "x", "a", "m", "p", "l", "e", ".", "c", "o", "m">>,
      <<"a">>, <<"/">>, <<" ">> }

NormInputs == {Concat(ps) : ps \in SeqsUpTo(NormPieces, MaxPieces)}

NormInit ==
    /\ arg \in NormInputs
    /\ ret = <<>>
    /\ LoadIdle /\ DiskIdle /\ PipeIdle

Normalize ==
    /\ ret = <<>>
    /\ ret' = <<normalize_host(arg)>>
    /\ UNCHANGED <<arg, disk, loadVars, pipeVars>>

NormalizeAgain ==
    /\ Len(ret) = 1
    /\ ret' = Append(ret, normalize_host(ret[1]))
    /\ UNCHANGED <<arg, disk, loadVars, pipeVars>>

NormNext == Normalize \/ NormalizeAgain

SpecNorm == NormInit /\ [][NormNext]_vars

\* "HTTPS://Example.com/" and "example.com"
ExampleUrl ==
    <<"H", "T", "T", "P", "S", ":", "/", "/",
      "E", "x", "a", "m", "p", "l", "e", ".", "c", "o", "m", "/">>
ExampleHost == <<"e", "x", "a", "m", "p", "l", "e", ".", "c", "o", "m">>

\* C2: normalize_host returns its argument with the leading scheme removed,
\* the trailing slashes (with the trailing spaces, which the code strips with
\* them) removed and the result lowercased; in particular
\* normalize_host("HTTPS://Example.com/") is "example.com".
C2_NormalizeLowercases ==
    Len(ret) >= 1 =>
        /\ ret[1] = Lower(RStrip(StripScheme(arg), {"/", " "}))
        /\ (arg = ExampleUrl => ret[1] = ExampleHost)

\* C3: normalize_host is idempotent: applying it to its own result changes
\* nothing.
C3_NormalizeIdempotent ==
    Len(ret) = 2 => ret[2] = ret[1]

(***************************************************************************)
(* read_input                                                              *)
(***************************************************************************)

\* A variant of the check that finds every path a file.
InputMissingNever(d) == FALSE

\* The check at the head of read_input: no such path, or not a regular file.
InputMissing(d) == d.kind # "file"

\* Index of the first "\n" of s, 0 if there is none.
RECURSIVE FirstNewline(_, _)
FirstNewline(s, i) ==
    IF i > Len(s) THEN 0
    ELSE IF s[i] = "\n" THEN i
    ELSE FirstNewline(s, i + 1)

\* Iterating a text file: the lines of the text, each with its line end.
RECURSIVE SplitLines(_)
SplitLines(text) ==
    IF text = <<>> THEN <<>>
    ELSE LET n == FirstNewline(text, 1)
         IN  IF n = 0 THEN <<text>>
             ELSE <<SubSeq(text, 1, n)>> \o SplitLines(Drop(text, n))

\* The loop of read_input: strip, lower, keep the non-empty.
RECURSIVE CleanLines(_)
CleanLines(ls) ==
    IF ls = <<>> THEN <<>>
    ELSE LET s == Lower(Strip(Head(ls)))
         IN  (IF s # <<>> THEN <<s>> ELSE <<>>) \o CleanLines(Tail(ls))

\* A variant of the loop that keeps the blank lines.
RECURSIVE CleanLinesKeepBlank(_)
CleanLinesKeepBlank(ls) ==
    IF ls = <<>> THEN <<>>
    ELSE <<Lower(Strip(Head(ls)))>> \o CleanLinesKeepBlank(Tail(ls))

read_input_keep_blank(text) == Sorted(Range(CleanLinesKeepBlank(SplitLines(text))))

\* read_input on an existing file holding text.
read_input(text) == Sorted(Range(CleanLines(SplitLines(text))))

\* A file holding the given lines, one per line.
RECURSIVE WriteLines(_)
WriteLines(ls) ==
    IF ls = <<>> THEN <<>> ELSE Head(ls) \o <<"\n">> \o WriteLines(Tail(ls))

MaxFileLen == 5

LoadChars == {"a", "A", "b", " ", "\n"}

LoadInit ==
    /\ disk \in [kind : {"file"}, text : SeqsUpTo(LoadChars, MaxFileLen)]
    /\ runs = <<>>
    /\ NormIdle /\ PipeIdle

\* read_input(path)
Load ==
    /\ runs = <<>>
    /\ ~InputMissing(disk)
    /\ runs' = <<read_input(disk.text)>>
    /\ UNCHANGED <<disk, normVars, pipeVars>>

\* read_input(path) a second time, the file unchanged
LoadAgain ==
    /\ Len(runs) = 1
    /\ runs' = Append(runs, read_input(disk.text))
    /\ UNCHANGED <<disk, normVars, pipeVars>>

\* read_input on a second file, which holds the first result one host per line
LoadOwnOutput ==
    /\ Len(runs) = 2
    /\ runs' = Append(runs, read_input(WriteLines(runs[1])))
    /\ UNCHANGED <<disk, normVars, pipeVars>>

LoadNext == Load \/ LoadAgain \/ LoadOwnOutput

SpecLoad == LoadInit /\ [][LoadNext]_vars

StrictlySorted(seq) ==
    \A i \in 1..Len(seq) : \A j \in 1..Len(seq) : i < j => StrLess(seq[i], seq[j])

\* C8: read_input returns the trimmed, lowercased, non-blank lines of the
\* file, strictly sorted (so without duplicates), and loading again, from the
\* same file or from a file holding the first result, returns the same.
C8_LoaderSortedIdempotent ==
    /\ Len(runs) >= 1 =>
          /\ StrictlySorted(runs[1])
          /\ \A i \in 1..Len(runs[1]) :
                /\ runs[1][i] # <<>>
                /\ Strip(runs[1][i]) = runs[1][i]
                /\ Lower(runs[1][i]) = runs[1][i]
          /\ \A l \in Range(SplitLines(disk.text)) :
                Strip(l) # <<>> => Lower(Strip(l)) \in Range(runs[1])
          /\ \A x \in Range(runs[1]) :
                \E l \in Range(SplitLines(disk.text)) : x = Lower(Strip(l))
    /\ Len(runs) >= 2 => runs[2] = runs[1]
    /\ Len(runs) = 3 => runs[3] = runs[1]

\* A file with blank, padded, upper-case and repeated lines has been loaded
\* three times.
C8_Witness ==
    /\ Len(runs) = 3
    /\ disk.text = <<"A", "\n", " ", "\n", "a">>
    /\ runs[1] = <<<<"a">>>>

(***************************************************************************)
(* main: loading, filtering and sampling                                   *)
(***************************************************************************)

\* pat.search(l) for the patterns of the model: a literal, or "^" and a
\* literal, compiled with re.IGNORECASE.
PatternSearch(pat, l) ==
    IF pat[1] = "^" THEN IsPrefixIgnoreCase(Lower(Tail(pat)), l)
    ELSE \E k \in 0..Len(l) : IsPrefixIgnoreCase(Lower(pat), Drop(l, k))

\* [l for l in ls if P(l)]
RECURSIVE SelectSeqBy(_, _)
SelectSeqBy(ls, pat) ==
    IF ls = <<>> THEN <<>>
    ELSE (IF PatternSearch(pat, Head(ls)) THEN <<Head(ls)>> ELSE <<>>)
            \o SelectSeqBy(Tail(ls), pat)

filter_by_pattern(ls, pattern) ==
    IF pattern = <<>> THEN ls ELSE SelectSeqBy(ls, pattern)

sample_lines(ls, n) ==
    IF n <= 0 THEN ls
    ELSE SubSeq(ls, 1, IF n < Len(ls) THEN n ELSE Len(ls))

\* main, from read_input to the sampling: the host list the stages work on.
PrepareHosts(text, a) ==
    LET loaded   == read_input(text)
        filtered == IF a.pattern # <<>> THEN filter_by_pattern(loaded, a.pattern)
                    ELSE loaded
    IN  IF a.sample > 0 THEN sample_lines(filtered, a.sample) ELSE filtered

(***************************************************************************)
(* Futures and the worker pool                                             *)
(***************************************************************************)

None == [some |-> FALSE, val |-> <<>>]
Some(v) == [some |-> TRUE, val |-> v]

\* `if r:` on an Optional[str]
Truthy(r) == r.some /\ r.val # <<>>

\* The futures of ex.submit(f, h) for h in hs, in submission order.
Submit(hs) ==
    [i \in 1..Len(hs) |->
        [host |-> hs[i], st |-> "queued", tried |-> <<>>, r |-> None, ncollect |-> 0]]

NumRunning(tasks) == Cardinality({i \in 1..Len(tasks) : tasks[i].st = "running"})

\* The pool takes work items first in, first out, while a worker is free.
CanStart(tasks, i, threads) ==
    /\ i \in 1..Len(tasks)
    /\ tasks[i].st = "queued"
    /\ \A j \in 1..(i - 1) : tasks[j].st # "queued"
    /\ NumRunning(tasks) < threads

\* ThreadPoolExecutor(max_workers=threads) raises ValueError for a count that
\* is not positive.
PoolRejects(threads) == threads <= 0

\* A variant of the loop's end that returns after the first future.
SomeCollected(tasks) ==
    tasks = <<>> \/ \E i \in 1..Len(tasks) : tasks[i].st = "collected"

\* The end of `for fut in as_completed(futures)`: every future was yielded.
AllCollected(tasks) == \A i \in 1..Len(tasks) : tasks[i].st = "collected"

(***************************************************************************)
(* The resolver                                                            *)
(***************************************************************************)

\* What socket.getaddrinfo(h, None) does: a non-empty list, an empty list,
\* socket.gaierror (no such name), a timeout.
LookupOutcomes == {"addrs", "empty", "gaierror", "timeout"}

\* A variant of check that returns the host whatever the lookup did.
check_always(h, outcome) == Some(h)

\* check(h) of resolve_with_socket, given what getaddrinfo did.
check(h, outcome) == IF outcome = "addrs" THEN Some(h) ELSE None

\* line.split()[0] of a line that is not blank
FirstToken(line) ==
    LET t == LStripSpace(line)
        ends == {i \in 1..Len(t) : IsSpace(t[i])}
        n == IF ends = {} THEN Len(t) + 1
             ELSE CHOOSE i \in ends : \A j \in ends : i <= j
    IN  SubSeq(t, 1, n - 1)

\* The first tokens of the lines that are not blank, as the delegates collect them.
RECURSIVE FirstTokens(_)
FirstTokens(ls) ==
    IF ls = <<>> THEN <<>>
    ELSE (IF Strip(Head(ls)) = <<>> THEN <<>> ELSE <<FirstToken(Head(ls))>>)
            \o FirstTokens(Tail(ls))

\* resolve_with_dnsx, given the lines dnsx printed
resolve_with_dnsx(out) == Sorted(Range(FirstTokens(out)))

\* The line dnsx prints for a name it resolved: the name (of a URL, its host
\* part) and the record.
DnsxLine(h) == StripScheme(h) \o <<" ", "A">>

\* What dnsx may print for the hosts piped to it: a line for each host of any
\* subset of them, after an empty line or not.
DnsxOutputs(hs) ==
    { (IF blank THEN <<<<>>>> ELSE <<>>) \o [i \in 1..Len(Sorted(S)) |-> DnsxLine(Sorted(S)[i])] :
        S \in SUBSET Range(hs), blank \in BOOLEAN }

MaxThreads == 2
MaxSample == 2

\* "c\nb\na"
ThreeHostText == <<"c", "\n", "b", "\n", "a">>

\* The input files of the runs: "b\nA\nb \n", "http://a\n", "c\nb\na".
PipeTexts ==
    { <<"b", "\n", "A", "\n", "b", " ", "\n">>,
      <<"h", "t", "t", "p", ":", "/", "/", "a", "\n">>,
      ThreeHostText }

PipeDisks ==
    [kind : {"file"}, text : PipeTexts]
        \cup {[kind |-> "missing", text |-> <<>>], [kind |-> "dir", text |-> <<>>]}

PipePatterns == {<<>>, <<"^", "A">>}

PipeInit ==
    /\ disk \in PipeDisks
    /\ args \in [pattern : PipePatterns, sample : 0..MaxSample, threads : 0..MaxThreads]
    /\ tools \in [dnsx : BOOLEAN, httpx : BOOLEAN]
    \* the three-host file is run where httpx is installed
    /\ disk.text = ThreeHostText => tools.httpx
    /\ pc = "start" /\ exit_code = -1
    /\ hosts = <<>> /\ rtask = <<>> /\ racc = {} /\ resolved = <<>>
    /\ ptask = <<>> /\ lines = <<>> /\ alive_set = {} /\ alive_hosts = <<>>
    /\ raw_file = NoFile /\ out_file = NoFile /\ dead_hosts = <<>>
    /\ NormIdle /\ LoadIdle

\* read_input finds no regular file at the path: sys.exit(1)
InputNotFound ==
    /\ pc = "start"
    /\ InputMissing(disk)
    /\ pc' = "exit"
    /\ exit_code' = 1
    /\ UNCHANGED <<normVars, loadVars, disk, args, tools, hosts, rtask, racc, resolved,
                   ptask, lines, alive_set, alive_hosts, raw_file, out_file, dead_hosts>>

\* main up to the resolver: load, filter, sample
LoadHosts ==
    /\ pc = "start"
    /\ ~InputMissing(disk)
    /\ hosts' = PrepareHosts(disk.text, args)
    /\ pc' = "resolve"
    /\ UNCHANGED <<normVars, loadVars, disk, args, tools, exit_code, rtask, racc, resolved,
                   ptask, lines, alive_set, alive_hosts, raw_file, out_file, dead_hosts>>

\* resolved = resolve_with_dnsx(hosts, ...): dnsx runs to its end
ResolveDnsx ==
    /\ pc = "resolve"
    /\ tools.dnsx
    /\ \E out \in DnsxOutputs(hosts) : resolved' = resolve_with_dnsx(out)
    /\ pc' = "probe"
    /\ UNCHANGED <<normVars, loadVars, disk, args, tools, exit_code, hosts, rtask, racc,
                   ptask, lines, alive_set, alive_hosts, raw_file, out_file, dead_hosts>>

\* resolve_with_socket with a worker count the pool rejects: ValueError, which
\* nothing catches, ends the process
ResolveCrash ==
    /\ pc = "resolve"
    /\ ~tools.dnsx
    /\ PoolRejects(args.threads)
    /\ pc' = "crash"
    /\ exit_code' = 1
    /\ UNCHANGED <<normVars, loadVars, disk, args, tools, hosts, rtask, racc, resolved,
                   ptask, lines, alive_set, alive_hosts, raw_file, out_file, dead_hosts>>

\* resolve_with_socket: the futures are submitted
ResolveSubmit ==
    /\ pc = "resolve"
    /\ ~tools.dnsx
    /\ ~PoolRejects(args.threads)
    /\ rtask' = Submit(hosts)
    /\ racc' = {}
    /\ pc' = "resolving"
    /\ UNCHANGED <<normVars, loadVars, disk, args, tools, exit_code, hosts, resolved,
                   ptask, lines, alive_set, alive_hosts, raw_file, out_file, dead_hosts>>

\* a worker of the resolver's pool takes the next work item
ResolveStart(i) ==
    /\ CanStart(rtask, i, args.threads)
    /\ rtask' = [rtask EXCEPT ![i].st = "running"]
    /\ UNCHANGED <<normVars, loadVars, disk, pc, args, tools, exit_code, hosts, racc, resolved,
                   ptask, lines, alive_set, alive_hosts, raw_file, out_file, dead_hosts>>

\* check(h) runs: the lookup returns or raises, the future completes
ResolveFinish(i) ==
    /\ i \in 1..Len(rtask)
    /\ rtask[i].st = "running"
    /\ \E o \in LookupOutcomes :
          rtask' = [rtask EXCEPT ![i].st = "done",
                                 ![i].tried = <<o>>,
                                 ![i].r = check(rtask[i].host, o)]
    /\ UNCHANGED <<normVars, loadVars, disk, pc, args, tools, exit_code, hosts, racc, resolved,
                   ptask, lines, alive_set, alive_hosts, raw_file, out_file, dead_hosts>>

\* as_completed yields a completed future; the loop body collects its result
ResolveCollect(i) ==
    /\ pc = "resolving"
    /\ i \in 1..Len(rtask)
    /\ rtask[i].st = "done"
    /\ rtask' = [rtask EXCEPT ![i].st = "collected", ![i].ncollect = @ + 1]
    /\ racc' = IF Truthy(rtask[i].r) THEN racc \cup {rtask[i].r.val} ELSE racc
    /\ UNCHANGED <<normVars, loadVars, disk, pc, args, tools, exit_code, hosts, resolved,
                   ptask, lines, alive_set, alive_hosts, raw_file, out_file, dead_hosts>>

\* the loop and the with block end: return sorted(resolved)
ResolveReturn ==
    /\ pc = "resolving"
    /\ AllCollected(rtask)
    /\ resolved' = Sorted(racc)
    /\ pc' = "probe"
    /\ UNCHANGED <<normVars, loadVars, disk, args, tools, exit_code, hosts, rtask, racc,
                   ptask, lines, alive_set, alive_hosts, raw_file, out_file, dead_hosts>>

(***************************************************************************)
(* The prober                                                              *)
(***************************************************************************)

DigitChars == <<"0", "1", "2", "3", "4", "5", "6", "7", "8", "9">>
IsDigit(c) == \E d \in 1..10 : DigitChars[d] = c
DigitVal(c) == (CHOOSE d \in 1..10 : DigitChars[d] = c) - 1

\* str(n) for n >= 0
RECURSIVE IntStr(_)
IntStr(n) ==
    IF n < 10 THEN <<DigitChars[n + 1]>>
    ELSE IntStr(n \div 10) \o <<DigitChars[(n % 10) + 1]>>

\* Number of characters of s from position i on that satisfy \d (digit = TRUE)
\* or \s (digit = FALSE).
RECURSIVE RunLen(_, _, _)
RunLen(s, i, digit) ==
    IF i <= Len(s) /\ (IF digit THEN IsDigit(s[i]) ELSE IsSpace(s[i]))
    THEN 1 + RunLen(s, i + 1, digit)
    ELSE 0

HttpSlash == <<"H", "T", "T", "P", "/">>

\* Where HTTP/\d+\.\d+\s+(\d{3}) matches at position i of data: the position of
\* the group, 0 if there is no match at i.
StatusGroupAt(data, i) ==
    IF i + 4 > Len(data) \/ SubSeq(data, i, i + 4) # HttpSlash THEN 0
    ELSE LET a  == i + 5
             n1 == RunLen(data, a, TRUE)
             b  == a + n1
             n2 == RunLen(data, b + 1, TRUE)
             c  == b + 1 + n2
             n3 == RunLen(data, c, FALSE)
             g  == c + n3
         IN  IF /\ n1 >= 1
                /\ b <= Len(data) /\ data[b] = "."
                /\ n2 >= 1
                /\ n3 >= 1
                /\ RunLen(data, g, TRUE) >= 3
             THEN g ELSE 0

\* The status code probe_host_with_requests takes from the reply: the group of
\* the first match of the status line pattern, 0 when there is no match.
ParseStatus(data) ==
    LET hits == {i \in 1..Len(data) : StatusGroupAt(data, i) > 0}
    IN  IF hits = {} THEN 0
        ELSE LET i == CHOOSE x \in hits : \A y \in hits : x <= y
                 g == StatusGroupAt(data, i)
             IN  100 * DigitVal(data[g]) + 10 * DigitVal(data[g + 1]) + DigitVal(data[g + 2])

\* The reply holds a status line the pattern matches.
HasStatusLine(data) == \E i \in 1..Len(data) : StatusGroupAt(data, i) > 0

\* A variant of the scheme loop that tries http first.
SchemeOrderHttpFirst == <<SchemeHttp, SchemeHttps>>

\* for scheme in ("https", "http"), each with its "://"
SchemeOrder == <<SchemeHttps, SchemeHttp>>

\* port = 443 if scheme == "https" else 80
Port(scheme) == IF scheme = SchemeHttps THEN 443 ELSE 80

\* f"{scheme}://{host}"
Url(scheme, host) == scheme \o host

\* "HTTP/1.1 200 \n" and a reply with no status line
Reply200 == <<"H", "T", "T", "P", "/", "1", ".", "1", " ", "2", "0", "0", " ", "\n">>
ReplyGarbage == <<"x">>

\* What one pass of the scheme loop meets: create_connection raises (refused,
\* timeout), or connects and then sendall or recv raises (ioerror), or recv
\* returns data (reply).
ProbeOutcomes ==
    { [k |-> "refused", data |-> <<>>], [k |-> "timeout", data |-> <<>>],
      [k |-> "ioerror", data |-> <<>>],
      [k |-> "reply", data |-> Reply200], [k |-> "reply", data |-> ReplyGarbage] }

Connected(o) == o.k \in {"ioerror", "reply"}

\* One pass of the scheme loop: the tuple it returns, or None when the except
\* clause continues with the next scheme.
Attempt(host, scheme, o) ==
    IF o.k = "reply"
    THEN Some(<<Url(scheme, host), ParseStatus(o.data), <<"-">>>>)
    ELSE None

\* f"{url} {code} {title}\n"
RawLine(res) == res[1] \o <<" ">> \o IntStr(res[2]) \o <<" ">> \o res[3] \o <<"\n">>

\* A variant of the loop body of run_probe_fallback that writes a line for
\* every future.
CollectLinesAlways(ls, r, host) ==
    Append(ls, IF Truthy(r) THEN RawLine(r.val) ELSE host \o <<"\n">>)

\* The loop body of run_probe_fallback on `lines`.
CollectLines(ls, r, host) == IF Truthy(r) THEN Append(ls, RawLine(r.val)) ELSE ls

\* The loop body of run_probe_fallback on `alive_hosts`.
CollectAlive(alive, r) == IF Truthy(r) THEN alive \cup {normalize_host(r.val[1])} ELSE alive

\* out, the text of the lines
RECURSIVE JoinLines(_)
JoinLines(ls) ==
    IF ls = <<>> THEN <<>>
    ELSE IF Len(ls) = 1 THEN Head(ls)
    ELSE Head(ls) \o <<"\n">> \o JoinLines(Tail(ls))

\* The line httpx prints for a host that answers: the URL (the host itself when
\* it already is one) and the status.
HttpxLine(scheme, h) ==
    (IF SchemeMatchLen(h) > 0 THEN h ELSE Url(scheme, h)) \o <<" ", "2", "0", "0">>

\* What httpx may print for the hosts piped to it.
HttpxOutputs(hs) ==
    { [i \in 1..Len(Sorted(S)) |-> HttpxLine(sch, Sorted(S)[i])] :
        S \in SUBSET Range(hs), sch \in Range(SchemeOrder) }

\* run_httpx_on_hosts, given the lines httpx printed
run_httpx_on_hosts(out) == Sorted({normalize_host(t) : t \in Range(FirstTokens(out))})

\* alive_hosts = run_httpx_on_hosts(resolved, ...): httpx runs to its end
ProbeHttpx ==
    /\ pc = "probe"
    /\ tools.httpx
    /\ \E out \in HttpxOutputs(resolved) :
          /\ raw_file' = [written |-> TRUE, text |-> JoinLines(out)]
          /\ alive_hosts' = run_httpx_on_hosts(out)
    /\ pc' = "write"
    /\ UNCHANGED <<normVars, loadVars, disk, args, tools, exit_code, hosts, rtask, racc,
                   resolved, ptask, lines, alive_set, out_file, dead_hosts>>

\* run_probe_fallback with a worker count the pool rejects
ProbeCrash ==
    /\ pc = "probe"
    /\ ~tools.httpx
    /\ PoolRejects(args.threads)
    /\ pc' = "crash"
    /\ exit_code' = 1
    /\ UNCHANGED <<normVars, loadVars, disk, args, tools, hosts, rtask, racc, resolved,
                   ptask, lines, alive_set, alive_hosts, raw_file, out_file, dead_hosts>>

\* run_probe_fallback: the futures are submitted
ProbeSubmit ==
    /\ pc = "probe"
    /\ ~tools.httpx
    /\ ~PoolRejects(args.threads)
    /\ ptask' = Submit(resolved)
    /\ lines' = <<>>
    /\ alive_set' = {}
    /\ pc' = "probing"
    /\ UNCHANGED <<normVars, loadVars, disk, args, tools, exit_code, hosts, rtask, racc,
                   resolved, alive_hosts, raw_file, out_file, dead_hosts>>

\* a worker of the prober's pool takes the next work item
ProbeStart(i) ==
    /\ CanStart(ptask, i, args.threads)
    /\ ptask' = [ptask EXCEPT ![i].st = "running"]
    /\ UNCHANGED <<normVars, loadVars, disk, pc, args, tools, exit_code, hosts, rtask, racc,
                   resolved, lines, alive_set, alive_hosts, raw_file, out_file, dead_hosts>>

\* probe_host_with_requests: one pass of the scheme loop
ProbeTry(i) ==
    /\ i \in 1..Len(ptask)
    /\ ptask[i].st = "running"
    /\ LET k == Len(ptask[i].tried) + 1
       IN  \E o \in ProbeOutcomes :
             LET res == Attempt(ptask[i].host, SchemeOrder[k], o)
             IN  ptask' = [ptask EXCEPT
                    ![i].tried = Append(@, [scheme |-> SchemeOrder[k], o |-> o]),
                    ![i].r = res,
                    ![i].st = IF res.some \/ k = Len(SchemeOrder) THEN "done" ELSE "running"]
    /\ UNCHANGED <<normVars, loadVars, disk, pc, args, tools, exit_code, hosts, rtask, racc,
                   resolved, lines, alive_set, alive_hosts, raw_file, out_file, dead_hosts>>

\* as_completed yields a completed future; the loop body collects its result
ProbeCollect(i) ==
    /\ pc = "probing"
    /\ i \in 1..Len(ptask)
    /\ ptask[i].st = "done"
    /\ ptask' = [ptask EXCEPT ![i].st = "collected", ![i].ncollect = @ + 1]
    /\ lines' = CollectLines(lines, ptask[i].r, ptask[i].host)
    /\ alive_set' = CollectAlive(alive_set, ptask[i].r)
    /\ UNCHANGED <<normVars, loadVars, disk, pc, args, tools, exit_code, hosts, rtask, racc,
                   resolved, alive_hosts, raw_file, out_file, dead_hosts>>

\* the loop and the with block end: write the raw file, return sorted(alive_hosts)
ProbeReturn ==
    /\ pc = "probing"
    /\ AllCollected(ptask)
    /\ raw_file' = [written |-> TRUE, text |-> Concat(lines)]
    /\ alive_hosts' = Sorted(alive_set)
    /\ pc' = "write"
    /\ UNCHANGED <<normVars, loadVars, disk, args, tools, exit_code, hosts, rtask, racc,
                   resolved, ptask, lines, alive_set, out_file, dead_hosts>>

(***************************************************************************)
(* The output writer                                                       *)
(***************************************************************************)

\* The lines main writes to the hosts file.
RECURSIVE HostLines(_)
HostLines(hs) ==
    IF hs = <<>> THEN <<>>
    ELSE RStrip(Head(hs), {"/", "\n"}) \o <<"\n">> \o HostLines(Tail(hs))

\* The dead-host list: the input hosts that are not alive, sorted.
DeadHosts(input, alive) == Sorted(Range(input) \ Range(alive))

\* main, from the hosts file to the return
WriteOutput ==
    /\ pc = "write"
    /\ out_file' = [written |-> TRUE, text |-> HostLines(Sorted(Range(alive_hosts)))]
    /\ dead_hosts' = DeadHosts(hosts, alive_hosts)
    /\ pc' = "done"
    /\ exit_code' = 0
    /\ UNCHANGED <<normVars, loadVars, disk, args, tools, hosts, rtask, racc, resolved,
                   ptask, lines, alive_set, alive_hosts, raw_file>>

PipeNext ==
    \/ InputNotFound
    \/ LoadHosts
    \/ ResolveDnsx
    \/ ResolveCrash
    \/ ResolveSubmit
    \/ \E i \in 1..Len(rtask) : ResolveStart(i)
    \/ \E i \in 1..Len(rtask) : ResolveFinish(i)
    \/ \E i \in 1..Len(rtask) : ResolveCollect(i)
    \/ ResolveReturn
    \/ ProbeHttpx
    \/ ProbeCrash
    \/ ProbeSubmit
    \/ \E i \in 1..Len(ptask) : ProbeStart(i)
    \/ \E i \in 1..Len(ptask) : ProbeTry(i)
    \/ \E i \in 1..Len(ptask) : ProbeCollect(i)
    \/ ProbeReturn
    \/ WriteOutput

Spec == PipeInit /\ [][PipeNext]_vars

(***************************************************************************)
(* Properties of the pipeline                                              *)
(***************************************************************************)

Tasks(tasks) == 1..Len(tasks)

\* The fallback prober has been entered / has returned.
InFallbackProbe == ~tools.httpx /\ pc \in {"probing", "write", "done"}
FallbackProbeReturned == ~tools.httpx /\ pc \in {"write", "done"}

\* The fallback resolver has returned.
FallbackResolveReturned == ~tools.dnsx /\ pc \in {"probe", "probing", "write", "done"}

\* C1: at the end of a run the dead-host set is the input host set minus the
\* alive-host set, the two are disjoint, and their union is the input host set
\* (deduplicated, filtered, sampled).
C1_DeadAlivePartition ==
    pc = "done" =>
        /\ Range(dead_hosts) = Range(hosts) \ Range(alive_hosts)
        /\ Range(dead_hosts) \cap Range(alive_hosts) = {}
        /\ Range(dead_hosts) \cup Range(alive_hosts) = Range(hosts)

\* C4: in the fallback prober a host is in the alive set only if some scheme
\* returned a reply with a parsable status line; timeout, refusal and a
\* malformed reply leave the host out.
C4_AliveOnlyWithStatus ==
    InFallbackProbe =>
        \A a \in alive_set :
            \E i \in Tasks(ptask) : \E j \in 1..Len(ptask[i].tried) :
                /\ normalize_host(Url(ptask[i].tried[j].scheme, ptask[i].host)) = a
                /\ ptask[i].tried[j].o.k = "reply"
                /\ HasStatusLine(ptask[i].tried[j].o.data)

\* C5 as stated: HTTPS is tried before HTTP, and once a connect has succeeded
\* no further scheme is tried for the host, whatever the send and the receive
\* then do.
C5_FirstConnectWins ==
    \A i \in Tasks(ptask) :
        /\ \A j \in 1..Len(ptask[i].tried) :
              Connected(ptask[i].tried[j].o) => j = Len(ptask[i].tried)
        /\ Len(ptask[i].tried) >= 1 => Port(ptask[i].tried[1].scheme) = 443
        /\ Len(ptask[i].tried) >= 2 => Port(ptask[i].tried[2].scheme) = 80

Finished(t) == t.st \in {"done", "collected"}

\* C5 amended: HTTPS (443) is tried before HTTP (80); the first scheme whose
\* connect, send and receive all complete wins and no scheme is tried after it;
\* a scheme that fails, at the connect or after it, is followed by the next;
\* a host with no completed exchange on either scheme yields no result.
C5_FirstReplyWins ==
    \A i \in Tasks(ptask) :
        LET t == ptask[i] IN
        /\ Len(t.tried) <= 2
        /\ Len(t.tried) >= 1 => Port(t.tried[1].scheme) = 443
        /\ Len(t.tried) >= 2 => Port(t.tried[2].scheme) = 80
        /\ \A j \in 1..Len(t.tried) :
              t.tried[j].o.k = "reply" =>
                  /\ j = Len(t.tried)
                  /\ Finished(t)
                  /\ t.r.some
                  /\ t.r.val[1] = Url(t.tried[j].scheme, t.host)
        /\ (Finished(t) /\ \A j \in 1..Len(t.tried) : t.tried[j].o.k # "reply") =>
              /\ Len(t.tried) = 2
              /\ ~t.r.some

\* A host whose HTTPS connect succeeded and whose exchange then failed was
\* answered over HTTP.
C5_Witness ==
    \E i \in Tasks(ptask) :
        /\ Finished(ptask[i])
        /\ Len(ptask[i].tried) = 2
        /\ ptask[i].tried[1].o.k = "ioerror"
        /\ ptask[i].tried[2].o.k = "reply"

\* C6: no probe task is submitted or started, and no probe output exists,
\* before every resolve task has completed and been collected and the resolved
\* list is final; the prober is given the hosts of the resolved list only.
C6_NoPipelining ==
    (ptask # <<>> \/ raw_file.written \/ pc \in {"probing", "write", "done"}) =>
        /\ \A i \in Tasks(rtask) : rtask[i].st = "collected"
        /\ ~tools.dnsx =>
              /\ Len(rtask) = Len(hosts)
              /\ resolved = Sorted({rtask[i].r.val : i \in {k \in Tasks(rtask) : rtask[k].r.some}})
        /\ ~tools.httpx => {ptask[i].host : i \in Tasks(ptask)} = Range(resolved)
        /\ Len(ptask) <= Len(resolved)

\* Probe tasks run after a resolver stage of several tasks, one of which failed.
C6_Witness ==
    /\ pc = "probing"
    /\ Len(rtask) >= 2
    /\ Len(resolved) < Len(rtask)
    /\ \E i \in Tasks(ptask) : ptask[i].st = "running"

\* What resolve_with_socket has to return: the submitted hosts whose lookup
\* returned at least one record, each collected once, sorted.
ResolverResultRight ==
    /\ Len(rtask) = Len(hosts)
    /\ \A i \in Tasks(rtask) : rtask[i].host = hosts[i] /\ rtask[i].ncollect = 1
    /\ Range(resolved) = {hosts[i] : i \in {k \in Tasks(rtask) : rtask[k].tried = <<"addrs">>}}
    /\ StrictlySorted(resolved)

\* C7 as stated: for every worker count, once the fallback resolver has been
\* called it returns, and returns exactly the hosts whose lookup gave a record.
C7_ResolverAnyWorkerCount ==
    (~tools.dnsx /\ pc \in {"crash", "probe", "probing", "write", "done"}) =>
        /\ pc # "crash"
        /\ ResolverResultRight

\* C7 amended: for every positive worker count and every completion order the
\* fallback resolver returns exactly the submitted hosts whose lookup gave at
\* least one record, each collected once, sorted; a worker count of zero is
\* rejected by the pool before any lookup.
C7_ResolverPositiveWorkerCount ==
    /\ FallbackResolveReturned => (args.threads > 0 /\ ResolverResultRight)
    /\ (~tools.dnsx /\ args.threads <= 0) => (rtask = <<>> /\ resolved = <<>>)

\* Three hosts were looked up by two workers; one lookup failed.
C7_Witness ==
    /\ FallbackResolveReturned
    /\ args.threads = 2
    /\ Len(hosts) = 3
    /\ Len(resolved) = 2
    /\ \E i \in Tasks(rtask) : rtask[i].tried = <<"gaierror">>

WithResult(tasks) == {i \in Tasks(tasks) : tasks[i].r.some}

RefusedBoth(t) ==
    /\ Len(t.tried) = 2
    /\ t.tried[1].o.k = "refused"
    /\ t.tried[2].o.k = "refused"

\* C9: in the fallback prober a host that refuses on 443 and on 80 gives no
\* raw line and no entry in the alive set; every host with a probe result gives
\* exactly one raw line and its normalised host in the alive set; the number of
\* raw lines is the number of hosts with a result, whatever the completion order.
C9_OneLinePerResult ==
    /\ InFallbackProbe =>
          LET got == {i \in WithResult(ptask) : ptask[i].st = "collected"} IN
          /\ Len(lines) = Cardinality(got)
          /\ alive_set = {normalize_host(ptask[i].r.val[1]) : i \in got}
          /\ \A i \in got :
                Cardinality({j \in 1..Len(lines) : lines[j] = RawLine(ptask[i].r.val)}) = 1
          /\ \A i \in Tasks(ptask) :
                RefusedBoth(ptask[i]) =>
                    /\ ~ptask[i].r.some
                    /\ \A j \in 1..Len(lines) : \A sch \in Range(SchemeOrder) :
                          ~IsPrefixIgnoreCase(Url(sch, ptask[i].host) \o <<" ">>, lines[j])
    /\ FallbackProbeReturned =>
          /\ raw_file.written
          /\ Len(SplitLines(raw_file.text)) = Cardinality(WithResult(ptask))
          /\ Range(SplitLines(raw_file.text)) = {RawLine(ptask[i].r.val) : i \in WithResult(ptask)}
          /\ Range(alive_hosts) = {normalize_host(ptask[i].r.val[1]) : i \in WithResult(ptask)}

\* A run of the fallback prober ended with a host that refused on both ports
\* and a host that answered.
C9_Witness ==
    /\ FallbackProbeReturned
    /\ \E i \in Tasks(ptask) : RefusedBoth(ptask[i])
    /\ \E i \in Tasks(ptask) : ptask[i].r.some
    /\ Len(lines) = 1

\* C10: when the input path is missing or not a regular file the process
\* exits with a failure status before any stage starts, and neither output
\* file is written.
C10_MissingInputFatal ==
    /\ disk.kind # "file" =>
          /\ pc \in {"start", "exit"}
          /\ hosts = <<>> /\ rtask = <<>> /\ ptask = <<>>
          /\ resolved = <<>> /\ alive_hosts = <<>>
          /\ ~raw_file.written /\ ~out_file.written
    /\ pc = "exit" => (disk.kind # "file" /\ exit_code = 1)
    /\ exit_code = 0 => (pc = "done" /\ disk.kind = "file")

\* The run on a directory has exited.
C10_Witness == pc = "exit" /\ disk.kind = "dir" /\ exit_code = 1

====
